---- MODULE Spec2Model ----
(***************************************************************************)
(* A model of the token cache (src/src/auth/AuthManager.ts) and the        *)
(* two-tier schema cache (src/src/services/SchemaDiscovery.ts) of the      *)
(* Azure schema MCP server.                                                *)
(*                                                                         *)
(* Every asynchronous call is a process.  A call runs without interruption *)
(* from one completed I/O operation to the next one it starts, so the      *)
(* actions are the synchronous head of each method and one action per      *)
(* completed I/O operation (file read, mkdir, file write, unlink, remote   *)
(* request, credential request) together with the continuation that runs   *)
(* when it completes.  A file read is split into the read itself and the   *)
(* continuation that consumes the data.                                    *)
(***************************************************************************)
EXTENDS Integers, Sequences, FiniteSets, TLC

\* ------------------------------------------------------------------ bounds
MaxTicks == 1
MaxCred == 1

\* The calls that can be in flight at once
Procs == {1, 2}

\* ------------------------------------------------------------- time, tokens
\* The clock advances in steps of five minutes (milliseconds, as Date.now()).
TickMs == 5 * 60 * 1000

\* Lifetimes of the tokens the credential provider hands out: 4 and 10 minutes.
Lifetimes == {4 * 60 * 1000, 10 * 60 * 1000}

fiveMinutesWrong == 5 * 60

fiveMinutes == 5 * 60 * 1000

NoToken == [absent |-> TRUE]

CachedToken(tok, exp) == [token |-> tok, expiresOn |-> exp]

TokenUsableWrong(ct, t) == ct # NoToken

TokenUsableInverted(ct, t) == ct # NoToken /\ ct.expiresOn < t

\* this.cachedToken && this.cachedToken.expiresOn > Date.now()
TokenUsable(ct, t) == ct # NoToken /\ ct.expiresOn > t

isTokenExpiringSoon(ct, t) == IF ct = NoToken THEN TRUE ELSE ct.expiresOn < t + fiveMinutes

\* ------------------------------------------------------------ files and JSON
\* A file is absent, present but unreadable, or present with a text.  A text is
\* either well-formed JSON, kept as the sequence of its members in the order
\* JSON.stringify writes them, or garbage that JSON.parse rejects.
Absent == [kind |-> "absent"]
Unreadable == [kind |-> "unreadable"]
Garbage == [json |-> FALSE]
File(text) == [kind |-> "file", text |-> text]

JSONText(pairs) == [json |-> TRUE, pairs |-> pairs]

\* fs.readFile: the text, or an error
ReadError == [ok |-> FALSE]
readFile(f) == IF f.kind = "file" THEN [ok |-> TRUE, text |-> f.text] ELSE ReadError

\* JSON.parse of an object text: the object with the members of the text
ParseError == [parseError |-> TRUE]
JSONParse(text) ==
  IF ~text.json THEN ParseError
  ELSE LET ps == text.pairs
           keys == {ps[i][1] : i \in DOMAIN ps}
       IN [k \in keys |-> ps[CHOOSE i \in DOMAIN ps : ps[i][1] = k][2]]

\* the text null, which parses back to null
NullText == [json |-> TRUE, pairs |-> <<>>, isNull |-> TRUE]
StringifyTokenSeconds(ct) ==
  IF ct = NoToken THEN NullText
  ELSE JSONText(<< <<"token", ct.token>>, <<"expiresOn", ct.expiresOn \div 1000>> >>)

\* JSON.stringify(this.cachedToken, null, 2)
StringifyToken(ct) ==
  IF ct = NoToken THEN NullText
  ELSE JSONText(<< <<"token", ct.token>>, <<"expiresOn", ct.expiresOn>> >>)

ParseToken(text) ==
  IF ~text.json THEN ParseError
  ELSE IF "isNull" \in DOMAIN text THEN NoToken
  ELSE JSONParse(text)

\* ------------------------------------------------------------- schema cache
\* Table names, Graph endpoints and queries are sequences of characters.
TableNames == { <<"T">> }
Endpoints == { <<"/", "u">> }
Sources == TableNames \cup Endpoints

\* source.startsWith('/')
startsWithSlash(s) == Len(s) > 0 /\ s[1] = "/"

\* `table:${tableName}` and `api:${endpoint}`
cacheKey(kind, src) == <<kind, ":">> \o src

\* cacheKey.replace(/[:/]/g, '_') + '.json'
filename(key) ==
  [i \in 1..Len(key) |-> IF key[i] \in {":", "/"} THEN "_" ELSE key[i]] \o <<".json">>

Keys == {cacheKey("table", n) : n \in TableNames} \cup {cacheKey("api", e) : e \in Endpoints}
FileNames == {filename(k) : k \in Keys}

\* Two more endpoints, which differ in one character: '/' against '_'
SlashEndpoint == <<"/", "a", "/", "b">>
UnderscoreEndpoint == <<"/", "a", "_", "b">>
LookalikeEndpoints == {SlashEndpoint, UnderscoreEndpoint}

\* Every key the map can hold and every file the cache directory can hold
AllKeys == Keys \cup {cacheKey("api", e) : e \in LookalikeEndpoints}
AllFileNames == {filename(k) : k \in AllKeys}

NoEntry == [absent |-> TRUE]

\* --- the remote query engine: the outcomes of `<table> | getschema`
\* A result row is <<name, ordinal, type>>; the ordinal cell is a number or not.
Num(n) == [num |-> TRUE, v |-> n]
NotNum == [num |-> FALSE, v |-> 0]
RowsOrders == << <<"Id", Num(0), "long">>, <<"Total", Num(1), "real">> >>
RowsMixed == << <<"A", Num(1), "string">>, <<"B", NotNum, "long">> >>
RowChoices == {RowsOrders, RowsMixed}

Thrown == [thrown |-> TRUE]
QueryResponse(status, tables) == [thrown |-> FALSE, status |-> status, tables |-> tables]
QueryOutcomes ==
  {Thrown, QueryResponse("Failure", <<>>), QueryResponse("Success", <<>>)}
    \cup {QueryResponse("Success", <<rows>>) : rows \in RowChoices}

\* result.status !== 'Success' || !result.tables || result.tables.length === 0
queryFailed(result) == result.status # "Success" \/ Len(result.tables) = 0

\* table.rows.map((row, index) => ({name, type, ordinal}))
columnsOf(rows) ==
  [i \in 1..Len(rows) |->
     [name |-> rows[i][1],
      type |-> rows[i][3],
      ordinal |-> IF rows[i][2].num THEN rows[i][2].v ELSE i - 1]]

TableSchema(tableName, columns, discoveredAt, cached) ==
  [tableName |-> tableName, columns |-> columns,
   discoveredAt |-> discoveredAt, cached |-> cached]

\* { ...cached, cached: true }
markCached(e) == [k \in DOMAIN e \cup {"cached"} |-> IF k = "cached" THEN TRUE ELSE e[k]]

\* --- the Graph endpoint: the outcomes of GET <endpoint>?$top=<sampleSize>
\* A sample is a sequence of <<property, kind of value>>.
SampleFull == << <<"id", "string">>, <<"tags", "array">> >>
SampleNullTags == << <<"id", "string">>, <<"tags", "null">> >>
\* A response body either has a value member (a list of samples) or is one object.
FetchResponse(ok, hasValue, value, self) ==
  [thrown |-> FALSE, ok |-> ok, hasValue |-> hasValue, value |-> value, self |-> self]
FetchOutcomes ==
  {Thrown, FetchResponse(FALSE, FALSE, <<>>, <<>>),
   FetchResponse(TRUE, TRUE, <<SampleFull, SampleNullTags>>, <<>>)}

\* data.value || [data]
samplesOf(data) == IF data.hasValue THEN data.value ELSE <<data.self>>

\* s[key]: the kind of the value, or undefined
valueOf(sample, key) ==
  IF \E i \in DOMAIN sample : sample[i][1] = key
  THEN sample[CHOOSE i \in DOMAIN sample : sample[i][1] = key][2]
  ELSE "undefined"

\* Array.isArray(value) ? 'array' : typeof value
typeOf(v) == IF v = "array" THEN "array" ELSE IF v = "null" THEN "object" ELSE v

propertiesOfFirstOnly(samples) ==
  IF Len(samples) = 0 THEN <<>>
  ELSE LET first == samples[1]
       IN [i \in 1..Len(first) |->
             [name |-> first[i][1],
              type |-> typeOf(first[i][2]),
              required |-> first[i][2] # "null"]]

\* the properties of samples[0], each with its type and whether every sample has it
propertiesOf(samples) ==
  IF Len(samples) = 0 THEN <<>>
  ELSE LET first == samples[1]
       IN [i \in 1..Len(first) |->
             [name |-> first[i][1],
              type |-> typeOf(first[i][2]),
              required |-> \A j \in DOMAIN samples :
                              valueOf(samples[j], first[i][1]) \notin {"undefined", "null"}]]

GraphAPISchema(endpoint, properties, discoveredAt) ==
  [endpoint |-> endpoint, properties |-> properties, discoveredAt |-> discoveredAt]

StringifySchemaNoDate(e) ==
  IF "tableName" \in DOMAIN e
  THEN JSONText(<< <<"tableName", e.tableName>>, <<"columns", e.columns>>,
                   <<"cached", e.cached>> >>)
  ELSE JSONText(<< <<"endpoint", e.endpoint>>, <<"properties", e.properties>> >>)

\* JSON.stringify(schema, null, 2): the members in the order the object was built
StringifySchema(e) ==
  IF "tableName" \in DOMAIN e
  THEN JSONText(<< <<"tableName", e.tableName>>, <<"columns", e.columns>>,
                   <<"discoveredAt", e.discoveredAt>>, <<"cached", e.cached>> >>)
  ELSE JSONText(<< <<"endpoint", e.endpoint>>, <<"properties", e.properties>>,
                   <<"discoveredAt", e.discoveredAt>> >>)

loadSchemaFromDiskNoCatch(read) ==
  IF ~read.ok THEN ParseError ELSE JSONParse(read.text)

\* loadSchemaFromDisk: JSON.parse(await fs.readFile(...)), null on any error
loadSchemaFromDisk(read) ==
  IF ~read.ok THEN NoEntry
  ELSE IF JSONParse(read.text) = ParseError THEN NoEntry
  ELSE JSONParse(read.text)

\* The length of the text JSON.stringify writes for an entry, up to what is the
\* same for every entry of one key: the names and types of its columns or
\* properties, and true (4 characters) or false (5) for required.
RECURSIVE itemsSize(_)
itemsSize(items) ==
  IF Len(items) = 0 THEN 0
  ELSE LET c == Head(items)
       IN Len(c.name) + Len(c.type)
            + (IF "required" \in DOMAIN c THEN (IF c.required THEN 4 ELSE 5) ELSE 0)
            + itemsSize(Tail(items))

textSize(text) ==
  IF ~text.json THEN 0
  ELSE LET o == JSONParse(text)
       IN IF "columns" \in DOMAIN o THEN itemsSize(o.columns)
          ELSE IF "properties" \in DOMAIN o THEN itemsSize(o.properties)
          ELSE 0

\* fs.writeFile is not atomic: it opens the file with flag 'w', which creates or
\* truncates it, and then writes the text at offset 0.  A text written over a
\* longer one that another writer put there since the truncation leaves the
\* tail of the longer one behind; a file unlinked since stays unlinked.
writeOver(f, text) ==
  IF f.kind # "file" THEN f
  ELSE IF textSize(f.text) > textSize(text) THEN File(Garbage)
  ELSE File(text)

\* --- testQuery: the text that is executed
Queries == { <<"T">>, <<"T", " ", "|", " ", "t", "a", "k", "e", " ", "5">>,
             <<"m", "i", "s", "t", "a", "k", "e", "s">> }
MaxRowsChoices == {"10"}

\* String.prototype.includes
includes(s, sub) ==
  \E i \in 0..(Len(s) - Len(sub)) : \A j \in 1..Len(sub) : s[i + j] = sub[j]

\* query.includes('take') || query.includes('limit') ? query : `${query} | take ${maxRows}`
limitedQuery(query, maxRows) ==
  IF includes(query, <<"t", "a", "k", "e">>) \/ includes(query, <<"l", "i", "m", "i", "t">>)
  THEN query
  ELSE query \o <<" ", "|", " ", "t", "a", "k", "e", " ", maxRows>>

\* ------------------------------------------------------------------- state
VARIABLES
  cachedToken,  \* AuthManager.cachedToken
  tokenFile,    \* <tokenCacheDir>/azure-token.json
  schemaCache,  \* SchemaDiscovery.schemaCache, a map from cache keys to entries
  schemaDisk,   \* the files of <schemaCacheDir>, by file name
  now,          \* Date.now()
  credIssued,   \* tokens the credential provider has issued so far
  putDisk,      \* by file name, the entry the program last wrote there, while the file is as written
  putToken,     \* the token the program last wrote to the token file, while the file is as written
  proc          \* the calls in flight: position and locals of each

vars == <<cachedToken, tokenFile, schemaCache, schemaDisk, now, credIssued,
          putDisk, putToken, proc>>

NoRet == [ok |-> FALSE, value |-> "none"]
Ok(v) == [ok |-> TRUE, value |-> v]
Err == [ok |-> FALSE, value |-> "error"]

NoResp == [none |-> TRUE]

IdleProc ==
  [pc |-> "idle", op |-> "none", kind |-> "none", src |-> <<>>,
   read |-> ReadError,   \* what fs.readFile delivered
   text |-> Garbage,     \* the text handed to fs.writeFile
   schema |-> NoEntry,   \* the entry discovered, or taken from the cache
   via |-> "none",       \* where the entry came from: memory, disk or remote
   tok |-> NoToken,      \* the token getToken returned, with its expiry
   tokSrc |-> "none",    \* where it came from: memory, disk or acquired
   tokAt |-> 0,          \* Date.now() when getToken returned it
   maxRows |-> "",       \* testQuery's maxRows
   sent |-> <<>>,        \* the query text sent to the query engine
   remote |-> 0,         \* remote requests this call has made
   resp |-> NoResp,      \* the answer to its remote request
   cred |-> 0,           \* credential requests this call has made
   since |-> 0,          \* tokens the provider had issued when refreshToken was called
   arg |-> <<>>,         \* the arguments of a call that name no schema source
   ret |-> NoRet]

Init ==
  /\ cachedToken = NoToken
  /\ tokenFile = Absent
  /\ schemaCache = [k \in AllKeys |-> NoEntry]
  /\ schemaDisk = [f \in AllFileNames |-> Absent]
  /\ now = 0
  /\ credIssued = 0
  /\ putDisk = [f \in AllFileNames |-> NoEntry]
  /\ putToken = NoToken
  /\ proc = [p \in Procs |-> IdleProc]

\* The caller of getToken continues with the token: getToken and refreshToken
\* return it, every other caller sends its remote request with it.
afterTokenRetrying(pr, ct, from) ==
  LET pr1 == [pr EXCEPT !.tok = ct, !.tokSrc = from, !.tokAt = now]
  IN IF pr.op \in {"getToken", "refreshToken"}
     THEN [pr1 EXCEPT !.pc = "done", !.ret = Ok(ct.token)]
     ELSE [pr1 EXCEPT !.pc = "remote", !.remote = @ + 2,
                      !.sent = IF pr.op = "testQuery"
                               THEN limitedQuery(pr.src, pr.maxRows) ELSE @]

afterToken(pr, ct, from) ==
  LET pr1 == [pr EXCEPT !.tok = ct, !.tokSrc = from, !.tokAt = now]
  IN IF pr.op \in {"getToken", "refreshToken"}
     THEN [pr1 EXCEPT !.pc = "done", !.ret = Ok(ct.token)]
     ELSE [pr1 EXCEPT !.pc = "remote", !.remote = @ + 1,
                      !.sent = IF pr.op = "testQuery"
                               THEN limitedQuery(pr.src, pr.maxRows) ELSE @]

getTokenHeadNoMemory(pr) == [pr EXCEPT !.pc = "gt_read"]

\* getToken up to its first await: the in-memory token if still valid, else the
\* read of the token file is started.
getTokenHead(pr) ==
  IF TokenUsable(cachedToken, now)
  THEN afterToken(pr, cachedToken, "memory")
  ELSE [pr EXCEPT !.pc = "gt_read"]

loadCachedTokenKeep(read, old) ==
  IF ~read.ok THEN old
  ELSE IF ParseToken(read.text) = ParseError THEN old
  ELSE ParseToken(read.text)

\* loadCachedToken: this.cachedToken = JSON.parse(data), null on any error
loadCachedToken(read, old) ==
  IF ~read.ok THEN NoToken
  ELSE IF ParseToken(read.text) = ParseError THEN NoToken
  ELSE ParseToken(read.text)

\* --- CodeGeneration.detectTableWorkspace: the loop over the workspaces
\* this.config.workspaceId
PrimaryWorkspace == "w1"

\* the workspaceIds argument: left out, or a list
WorkspaceIdsChoices ==
  {[given |-> FALSE, ids |-> <<>>],
   [given |-> TRUE, ids |-> <<"w2">>],
   [given |-> TRUE, ids |-> <<"w1", "w2">>]}

\* workspaceIds || [this.config.workspaceId]
workspacesToCheck(workspaceIds) ==
  IF workspaceIds.given THEN workspaceIds.ids ELSE <<PrimaryWorkspace>>

\* the answers to the existence query and to the metadata query: thrown, a
\* status other than Success, no table, a table without rows, a table with a row
DetectOutcomes ==
  {Thrown, QueryResponse("PartialFailure", <<>>), QueryResponse("Success", <<>>),
   QueryResponse("Success", << <<>> >>), QueryResponse("Success", << << <<3>> >> >>)}

workspaceName(workspaceId) == IF workspaceId = PrimaryWorkspace THEN "primary" ELSE "secondary"

\* notFoundIn.push({workspaceId, workspaceName, hasData: false, reason})
pushNotFound(pr, reason) ==
  LET w == pr.arg.workspaces[pr.arg.i]
  IN [pr EXCEPT !.arg.notFoundIn =
        Append(pr.arg.notFoundIn,
               [workspaceId |-> w, workspaceName |-> workspaceName(w),
                hasData |-> FALSE, reason |-> reason])]

\* foundIn.push({workspaceId, workspaceName, hasData: rowCount > 0, rowCount, ...})
pushFound(pr, rowCount) ==
  LET w == pr.arg.workspaces[pr.arg.i]
  IN [pr EXCEPT !.arg.foundIn =
        Append(pr.arg.foundIn,
               [workspaceId |-> w, workspaceName |-> workspaceName(w),
                hasData |-> rowCount > 0, rowCount |-> rowCount])]

\* the head of the for loop: the result when every workspace was checked, else
\* authManager.getToken() for the next one
detectLoop(pr) ==
  IF pr.arg.i > Len(pr.arg.workspaces)
  THEN [pr EXCEPT !.pc = "done",
                  !.ret = Ok([tableName |-> pr.src, foundIn |-> pr.arg.foundIn,
                              notFoundIn |-> pr.arg.notFoundIn])]
  ELSE getTokenHead(pr)

\* the end of one iteration
detectContinue(pr) == detectLoop([pr EXCEPT !.arg.i = pr.arg.i + 1])

\* getToken throws: detectTableWorkspace catches it inside its loop, every
\* other caller fails
getTokenThrows(pr) ==
  IF pr.op = "detectTableWorkspace"
  THEN detectContinue(pushNotFound(pr, "error.message"))
  ELSE [pr EXCEPT !.pc = "done", !.ret = Err]

\* -------------------------------------------------------------- AuthManager
StartGetToken(p) ==
  /\ proc[p].pc = "idle"
  /\ proc' = [proc EXCEPT ![p] = getTokenHead([IdleProc EXCEPT !.op = "getToken"])]
  /\ UNCHANGED <<cachedToken, tokenFile, schemaCache, schemaDisk, now, credIssued, putDisk, putToken>>

\* fs.readFile(this.tokenFilePath) completes
TokenFileRead(p) ==
  /\ proc[p].pc = "gt_read"
  /\ proc' = [proc EXCEPT ![p] = [@ EXCEPT !.read = readFile(tokenFile), !.pc = "gt_loaded"]]
  /\ UNCHANGED <<cachedToken, tokenFile, schemaCache, schemaDisk, now, credIssued, putDisk, putToken>>

\* loadCachedToken resumes and assigns this.cachedToken; getToken checks it again
\* and calls the credential provider when it is not usable
TokenLoaded(p) ==
  /\ proc[p].pc = "gt_loaded"
  /\ LET ct == loadCachedToken(proc[p].read, cachedToken)
     IN /\ cachedToken' = ct
        /\ proc' = [proc EXCEPT ![p] =
                      IF TokenUsable(ct, now)
                      THEN afterToken(@, ct, "disk")
                      ELSE [@ EXCEPT !.pc = "gt_acquire", !.cred = @ + 1]]
  /\ UNCHANGED <<tokenFile, schemaCache, schemaDisk, now, credIssued, putDisk, putToken>>

AcquireFailedSwallowed(p) ==
  /\ proc[p].pc = "gt_acquire"
  /\ proc' = [proc EXCEPT ![p] =
                [@ EXCEPT !.pc = "done",
                          !.ret = IF proc[p].op = "refreshSchema"
                                  THEN Ok([success |-> TRUE, source |-> proc[p].src,
                                           refreshedAt |-> now])
                                  ELSE Err]]
  /\ UNCHANGED <<cachedToken, tokenFile, schemaCache, schemaDisk, now, credIssued, putDisk, putToken>>

\* this.credential.getToken(scopes) fails, or answers nothing
AcquireFailed(p) ==
  /\ proc[p].pc = "gt_acquire"
  /\ proc' = [proc EXCEPT ![p] = getTokenThrows(proc[p])]
  /\ UNCHANGED <<cachedToken, tokenFile, schemaCache, schemaDisk, now, credIssued, putDisk, putToken>>

\* this.credential.getToken(scopes) answers a token; it is cached in memory and
\* saveCachedToken starts with fs.mkdir
Acquired(p) ==
  /\ proc[p].pc = "gt_acquire"
  /\ credIssued < MaxCred
  /\ \E life \in Lifetimes :
       LET ct == CachedToken(credIssued + 1, now + life)
       IN /\ cachedToken' = ct
          /\ proc' = [proc EXCEPT ![p] =
                        [@ EXCEPT !.tok = ct, !.tokSrc = "acquired", !.pc = "gt_mkdir"]]
  /\ credIssued' = credIssued + 1
  /\ UNCHANGED <<tokenFile, schemaCache, schemaDisk, now, putDisk, putToken>>

\* fs.mkdir completes: on success the token now in memory is serialized and
\* fs.writeFile starts; on failure the error is logged
TokenMkdir(p) ==
  /\ proc[p].pc = "gt_mkdir"
  /\ \E ok \in BOOLEAN :
       proc' = [proc EXCEPT ![p] =
                  IF ok
                  THEN [@ EXCEPT !.text = StringifyToken(cachedToken), !.pc = "gt_write"]
                  ELSE afterToken(@, @.tok, "acquired")]
  /\ UNCHANGED <<cachedToken, tokenFile, schemaCache, schemaDisk, now, credIssued, putDisk, putToken>>

\* fs.writeFile completes, with or without success; getToken returns the token
TokenWritten(p) ==
  /\ proc[p].pc = "gt_write"
  /\ \/ /\ tokenFile' = File(proc[p].text)
        /\ putToken' = proc[p].tok
     \/ UNCHANGED <<tokenFile, putToken>>
  /\ proc' = [proc EXCEPT ![p] = afterToken(@, @.tok, "acquired")]
  /\ UNCHANGED <<cachedToken, schemaCache, schemaDisk, now, credIssued, putDisk>>

StartRefreshToken(p) ==
  /\ proc[p].pc = "idle"
  /\ cachedToken' = NoToken
  /\ proc' = [proc EXCEPT ![p] = [IdleProc EXCEPT !.op = "refreshToken", !.pc = "rt_unlink",
                                 !.since = credIssued]]
  /\ UNCHANGED <<tokenFile, schemaCache, schemaDisk, now, credIssued, putDisk, putToken>>

\* fs.unlink(this.tokenFilePath) completes; errors are ignored
TokenUnlink(p) ==
  /\ proc[p].pc = "rt_unlink"
  /\ \/ /\ tokenFile' = Absent
        /\ putToken' = NoToken
     \/ UNCHANGED <<tokenFile, putToken>>
  /\ proc' = [proc EXCEPT ![p] = [@ EXCEPT !.pc = "rt_unlinked"]]
  /\ UNCHANGED <<cachedToken, schemaCache, schemaDisk, now, credIssued, putDisk>>

\* refreshToken resumes: return this.getToken()
TokenUnlinked(p) ==
  /\ proc[p].pc = "rt_unlinked"
  /\ proc' = [proc EXCEPT ![p] = getTokenHead(@)]
  /\ UNCHANGED <<cachedToken, tokenFile, schemaCache, schemaDisk, now, credIssued, putDisk, putToken>>

IsTokenExpiringSoon(p) ==
  /\ proc[p].pc = "idle"
  /\ proc' = [proc EXCEPT ![p] =
                [IdleProc EXCEPT !.op = "isTokenExpiringSoon", !.pc = "done",
                                 !.tok = cachedToken, !.tokAt = now,
                                 !.ret = Ok(isTokenExpiringSoon(cachedToken, now))]]
  /\ UNCHANGED <<cachedToken, tokenFile, schemaCache, schemaDisk, now, credIssued, putDisk, putToken>>

\* ---------------------------------------------------------- SchemaDiscovery
keyOf(pr) == cacheKey(pr.kind, pr.src)

\* --- CodeGeneration.generateSDKCode: the three templates, by their first line
ReactMSALCode == "// React component with MSAL authentication"
NodeCode == "// Node.js with DefaultAzureCredential"
InlineCode == "// Inline query code (generic TokenCredential)"

Frameworks == {"react", "node", "inline"}
AuthTypes == {"msal-browser", "default-credential"}

\* the first line of the code that generateSDKCode returns
templateOf(framework, authType) ==
  IF framework = "react" /\ authType = "msal-browser" THEN ReactMSALCode
  ELSE IF framework = "node" \/ authType = "default-credential" THEN NodeCode
  ELSE InlineCode

\* schema.columns.slice(0, 5).map(c => c.name)
columnList(columns) ==
  [i \in 1..(IF Len(columns) > 5 THEN 5 ELSE Len(columns)) |-> columns[i].name]

\* the code generated for the table of schema: the template, the table named
\* in it and the columns listed in its comment
generateSDKCode(params, schema) ==
  [template |-> templateOf(params.framework, params.authType),
   tableName |-> schema.tableName,
   columnList |-> columnList(schema.columns),
   hasMore |-> Len(schema.columns) > 5]

\* getTableSchema / getGraphAPISchema return the entry e; refreshSchema, when it
\* is the caller, returns {success: true, source, refreshedAt}, and
\* generateSDKCode the code for the entry
schemaReturn(pr, e, via) ==
  LET value == IF pr.kind = "table" /\ via # "remote" THEN markCached(e) ELSE e
      pr1 == [pr EXCEPT !.schema = value, !.via = via, !.pc = "done"]
  IN IF pr.op = "refreshSchema"
     THEN [pr1 EXCEPT !.ret = Ok([success |-> TRUE, source |-> pr.src, refreshedAt |-> now])]
     ELSE IF pr.op = "generateSDKCode"
     THEN [pr1 EXCEPT !.ret = Ok(generateSDKCode(pr.arg, value))]
     ELSE [pr1 EXCEPT !.ret = Ok(value)]

\* getTableSchema / getGraphAPISchema up to the first await: the in-memory entry
\* if there is one, else the read of the schema file is started
getSchemaHeadExpiring(pr) ==
  IF schemaCache[keyOf(pr)] # NoEntry /\ schemaCache[keyOf(pr)].discoveredAt + TickMs > now
  THEN schemaReturn(pr, schemaCache[keyOf(pr)], "memory")
  ELSE [pr EXCEPT !.pc = "sc_read"]

getSchemaHead(pr) ==
  IF schemaCache[keyOf(pr)] # NoEntry
  THEN schemaReturn(pr, schemaCache[keyOf(pr)], "memory")
  ELSE [pr EXCEPT !.pc = "sc_read"]

StartGetTableSchema(p) ==
  /\ proc[p].pc = "idle"
  /\ \E n \in TableNames :
       proc' = [proc EXCEPT ![p] =
                  getSchemaHead([IdleProc EXCEPT !.op = "getTableSchema",
                                                 !.kind = "table", !.src = n])]
  /\ UNCHANGED <<cachedToken, tokenFile, schemaCache, schemaDisk, now, credIssued, putDisk, putToken>>

\* getGraphAPISchema(endpoint) is called
CallGetGraphAPISchema(p, e) ==
  proc' = [proc EXCEPT ![p] =
             getSchemaHead([IdleProc EXCEPT !.op = "getGraphAPISchema",
                                            !.kind = "api", !.src = e])]

StartGetGraphAPISchema(p) ==
  /\ proc[p].pc = "idle"
  /\ \E e \in Endpoints : CallGetGraphAPISchema(p, e)
  /\ UNCHANGED <<cachedToken, tokenFile, schemaCache, schemaDisk, now, credIssued, putDisk, putToken>>

\* fs.readFile(filepath) of loadSchemaFromDisk completes
SchemaFileRead(p) ==
  /\ proc[p].pc = "sc_read"
  /\ proc' = [proc EXCEPT ![p] =
                [@ EXCEPT !.read = readFile(schemaDisk[filename(keyOf(proc[p]))]),
                          !.pc = "sc_loaded"]]
  /\ UNCHANGED <<cachedToken, tokenFile, schemaCache, schemaDisk, now, credIssued, putDisk, putToken>>

\* loadSchemaFromDisk resumes: a parsed entry is put in the map and returned;
\* otherwise discovery starts with authManager.getToken()
SchemaLoaded(p) ==
  /\ proc[p].pc = "sc_loaded"
  /\ LET diskSchema == loadSchemaFromDisk(proc[p].read)
     IN IF diskSchema # NoEntry
        THEN /\ schemaCache' = [schemaCache EXCEPT ![keyOf(proc[p])] = diskSchema]
             /\ proc' = [proc EXCEPT ![p] = schemaReturn(@, diskSchema, "disk")]
        ELSE /\ schemaCache' = schemaCache
             /\ proc' = [proc EXCEPT ![p] = getTokenHead(@)]
  /\ UNCHANGED <<cachedToken, tokenFile, schemaDisk, now, credIssued, putDisk, putToken>>

\* the entry set in the map by schemaCache.set(cacheKey, schema)
cacheSetStale(cache, key, schema) == cache

cacheSet(cache, key, schema) == [cache EXCEPT ![key] = schema]

TableDiscoveredEager(p) ==
  /\ proc[p].pc = "remote"
  /\ proc[p].kind = "table"
  /\ \E r \in QueryOutcomes :
       LET rows == IF r.thrown \/ queryFailed(r) THEN <<>> ELSE r.tables[1]
           schema == TableSchema(proc[p].src, columnsOf(rows), now, FALSE)
       IN /\ schemaCache' = cacheSet(schemaCache, keyOf(proc[p]), schema)
          /\ proc' = [proc EXCEPT ![p] =
                        IF r.thrown \/ queryFailed(r)
                        THEN [@ EXCEPT !.pc = "done", !.ret = Err, !.resp = r]
                        ELSE [@ EXCEPT !.schema = schema, !.via = "remote", !.pc = "sc_mkdir",
                                       !.resp = r]]
  /\ UNCHANGED <<cachedToken, tokenFile, schemaDisk, now, credIssued, putDisk, putToken>>

\* client.queryWorkspace(`${tableName} | getschema`) completes
TableDiscovered(p) ==
  /\ proc[p].pc = "remote"
  /\ proc[p].kind = "table"
  /\ \E r \in QueryOutcomes :
       IF r.thrown \/ queryFailed(r)
       THEN /\ proc' = [proc EXCEPT ![p] = [@ EXCEPT !.pc = "done", !.ret = Err, !.resp = r]]
            /\ schemaCache' = schemaCache
       ELSE LET schema == TableSchema(proc[p].src, columnsOf(r.tables[1]), now, FALSE)
            IN /\ schemaCache' = cacheSet(schemaCache, keyOf(proc[p]), schema)
               /\ proc' = [proc EXCEPT ![p] =
                             [@ EXCEPT !.schema = schema, !.via = "remote", !.pc = "sc_mkdir",
                                       !.resp = r]]
  /\ UNCHANGED <<cachedToken, tokenFile, schemaDisk, now, credIssued, putDisk, putToken>>

\* fetch(`https://graph.microsoft.com/v1.0${endpoint}?$top=${sampleSize}`) completes
GraphFetchedFrom(p, outcomes) ==
  /\ proc[p].pc = "remote"
  /\ proc[p].kind = "api"
  /\ \E r \in outcomes :
       IF r.thrown \/ ~r.ok
       THEN /\ proc' = [proc EXCEPT ![p] = [@ EXCEPT !.pc = "done", !.ret = Err, !.resp = r]]
            /\ schemaCache' = schemaCache
       ELSE LET schema == GraphAPISchema(proc[p].src, propertiesOf(samplesOf(r)), now)
            IN /\ schemaCache' = cacheSet(schemaCache, keyOf(proc[p]), schema)
               /\ proc' = [proc EXCEPT ![p] =
                             [@ EXCEPT !.schema = schema, !.via = "remote", !.pc = "sc_mkdir",
                                       !.resp = r]]
  /\ UNCHANGED <<cachedToken, tokenFile, schemaDisk, now, credIssued, putDisk, putToken>>

GraphFetched(p) == GraphFetchedFrom(p, FetchOutcomes)

SchemaMkdirThrowing(p) ==
  /\ proc[p].pc = "sc_mkdir"
  /\ \E ok \in BOOLEAN :
       proc' = [proc EXCEPT ![p] =
                  IF ok
                  THEN [@ EXCEPT !.text = StringifySchema(proc[p].schema), !.pc = "sc_open"]
                  ELSE [@ EXCEPT !.pc = "done", !.ret = Err]]
  /\ UNCHANGED <<cachedToken, tokenFile, schemaCache, schemaDisk, now, credIssued, putDisk, putToken>>

\* fs.mkdir of saveSchemaToDisk completes: on success the entry is serialized and
\* fs.writeFile starts; on failure the error is logged and the entry returned
SchemaMkdir(p) ==
  /\ proc[p].pc = "sc_mkdir"
  /\ \E ok \in BOOLEAN :
       proc' = [proc EXCEPT ![p] =
                  IF ok
                  THEN [@ EXCEPT !.text = StringifySchema(proc[p].schema), !.pc = "sc_open"]
                  ELSE schemaReturn(@, @.schema, "remote")]
  /\ UNCHANGED <<cachedToken, tokenFile, schemaCache, schemaDisk, now, credIssued, putDisk, putToken>>

\* fs.writeFile opens the file, which is created or truncated; on failure the
\* error is logged and the entry returned
SchemaOpened(p) ==
  /\ proc[p].pc = "sc_open"
  /\ \/ /\ schemaDisk' = [schemaDisk EXCEPT ![filename(keyOf(proc[p]))] = File(Garbage)]
        /\ putDisk' = [putDisk EXCEPT ![filename(keyOf(proc[p]))] = NoEntry]
        /\ proc' = [proc EXCEPT ![p] = [@ EXCEPT !.pc = "sc_write"]]
     \/ /\ UNCHANGED <<schemaDisk, putDisk>>
        /\ proc' = [proc EXCEPT ![p] = schemaReturn(@, @.schema, "remote")]
  /\ UNCHANGED <<cachedToken, tokenFile, schemaCache, now, credIssued, putToken>>

\* fs.writeFile writes the text and closes the file, with or without success;
\* the entry is returned
SchemaWritten(p) ==
  /\ proc[p].pc = "sc_write"
  /\ \/ LET f == filename(keyOf(proc[p]))
            written == writeOver(schemaDisk[f], proc[p].text)
        IN /\ schemaDisk' = [schemaDisk EXCEPT ![f] = written]
           /\ putDisk' = [putDisk EXCEPT ![f] = IF written = File(proc[p].text)
                                                 THEN proc[p].schema ELSE NoEntry]
     \/ UNCHANGED <<schemaDisk, putDisk>>
  /\ proc' = [proc EXCEPT ![p] = schemaReturn(@, @.schema, "remote")]
  /\ UNCHANGED <<cachedToken, tokenFile, schemaCache, now, credIssued, putToken>>

\* refreshSchema up to its first await: the key's kind, schemaCache.delete, and
\* the unlink of the schema file is started
CallRefreshSchema(p, s) ==
  LET pr == [IdleProc EXCEPT !.op = "refreshSchema",
                             !.kind = IF startsWithSlash(s) THEN "api" ELSE "table",
                             !.src = s, !.pc = "rs_unlink"]
  IN /\ schemaCache' = [schemaCache EXCEPT ![keyOf(pr)] = NoEntry]
     /\ proc' = [proc EXCEPT ![p] = pr]

StartRefreshSchema(p) ==
  /\ proc[p].pc = "idle"
  /\ \E s \in Sources : CallRefreshSchema(p, s)
  /\ UNCHANGED <<cachedToken, tokenFile, schemaDisk, now, credIssued, putDisk, putToken>>

\* fs.unlink(filepath) of deleteSchemaFromDisk completes; errors are ignored
SchemaUnlink(p) ==
  /\ proc[p].pc = "rs_unlink"
  /\ \/ /\ schemaDisk' = [schemaDisk EXCEPT ![filename(keyOf(proc[p]))] = Absent]
        /\ putDisk' = [putDisk EXCEPT ![filename(keyOf(proc[p]))] = NoEntry]
     \/ UNCHANGED <<schemaDisk, putDisk>>
  /\ proc' = [proc EXCEPT ![p] = [@ EXCEPT !.pc = "rs_unlinked"]]
  /\ UNCHANGED <<cachedToken, tokenFile, schemaCache, now, credIssued, putToken>>

\* refreshSchema resumes: getGraphAPISchema(source) or getTableSchema(source)
SchemaUnlinked(p) ==
  /\ proc[p].pc = "rs_unlinked"
  /\ proc' = [proc EXCEPT ![p] = getSchemaHead(@)]
  /\ UNCHANGED <<cachedToken, tokenFile, schemaCache, schemaDisk, now, credIssued, putDisk, putToken>>

StartTestQuery(p) ==
  /\ proc[p].pc = "idle"
  /\ \E q \in Queries, m \in MaxRowsChoices :
       proc' = [proc EXCEPT ![p] =
                  getTokenHead([IdleProc EXCEPT !.op = "testQuery", !.src = q, !.maxRows = m])]
  /\ UNCHANGED <<cachedToken, tokenFile, schemaCache, schemaDisk, now, credIssued, putDisk, putToken>>

\* client.queryWorkspace(limitedQuery) completes
QueryTested(p) ==
  /\ proc[p].pc = "remote"
  /\ proc[p].op = "testQuery"
  /\ \E r \in QueryOutcomes :
       proc' = [proc EXCEPT ![p] =
                  [@ EXCEPT !.pc = "done", !.resp = r,
                            !.ret = IF r.thrown \/ queryFailed(r) THEN Err
                                    ELSE Ok([rows |-> r.tables[1],
                                             rowCount |-> Len(r.tables[1])])]]
  /\ UNCHANGED <<cachedToken, tokenFile, schemaCache, schemaDisk, now, credIssued, putDisk, putToken>>

StartListTables(p) ==
  /\ proc[p].pc = "idle"
  /\ proc' = [proc EXCEPT ![p] = getTokenHead([IdleProc EXCEPT !.op = "listTables"])]
  /\ UNCHANGED <<cachedToken, tokenFile, schemaCache, schemaDisk, now, credIssued, putDisk, putToken>>

\* client.queryWorkspace(`union withsource = TableName * | ...`) completes
TablesListed(p) ==
  /\ proc[p].pc = "remote"
  /\ proc[p].op = "listTables"
  /\ \E r \in QueryOutcomes :
       proc' = [proc EXCEPT ![p] =
                  [@ EXCEPT !.pc = "done", !.resp = r,
                            !.ret = IF r.thrown \/ queryFailed(r) THEN Err
                                    ELSE Ok([i \in 1..Len(r.tables[1]) |-> r.tables[1][i][1]])]]
  /\ UNCHANGED <<cachedToken, tokenFile, schemaCache, schemaDisk, now, credIssued, putDisk, putToken>>

\* --------------------------------------------------------------- environment
\* The promise of a call settles and its caller has the result.
Return(p) ==
  /\ proc[p].pc = "done"
  /\ proc' = [proc EXCEPT ![p] = IdleProc]
  /\ UNCHANGED <<cachedToken, tokenFile, schemaCache, schemaDisk, now, credIssued, putDisk, putToken>>

Tick ==
  /\ now < MaxTicks * TickMs
  /\ now' = now + TickMs
  /\ UNCHANGED <<cachedToken, tokenFile, schemaCache, schemaDisk, credIssued, proc, putDisk, putToken>>

\* The process exits and a new one starts on the same cache directories.
Restart ==
  /\ \/ cachedToken # NoToken
     \/ \E k \in AllKeys : schemaCache[k] # NoEntry
     \/ \E p \in Procs : proc[p].pc # "idle"
  /\ cachedToken' = NoToken
  /\ schemaCache' = [k \in AllKeys |-> NoEntry]
  /\ proc' = [p \in Procs |-> IdleProc]
  /\ UNCHANGED <<tokenFile, schemaDisk, now, credIssued, putDisk, putToken>>

\* A cache file is damaged from outside: its text is no longer JSON, or it can
\* no longer be read.
TamperSchemaFile ==
  /\ \E f \in FileNames, d \in {File(Garbage), Unreadable} :
       /\ schemaDisk[f].kind = "file"
       /\ schemaDisk[f] # d
       /\ schemaDisk' = [schemaDisk EXCEPT ![f] = d]
       /\ putDisk' = [putDisk EXCEPT ![f] = NoEntry]
  /\ UNCHANGED <<cachedToken, tokenFile, schemaCache, now, credIssued, proc, putToken>>

TamperTokenFile ==
  /\ \E d \in {File(Garbage), Unreadable} :
       /\ tokenFile.kind = "file"
       /\ tokenFile # d
       /\ tokenFile' = d
  /\ putToken' = NoToken
  /\ UNCHANGED <<cachedToken, schemaCache, schemaDisk, now, credIssued, proc, putDisk>>

\* The steps of the calls on AuthManager
AuthStep(p) ==
  \/ StartGetToken(p) \/ TokenFileRead(p) \/ TokenLoaded(p)
  \/ AcquireFailed(p) \/ Acquired(p) \/ TokenMkdir(p) \/ TokenWritten(p)
  \/ StartRefreshToken(p) \/ TokenUnlink(p) \/ TokenUnlinked(p)
  \/ IsTokenExpiringSoon(p)
  \/ Return(p)

\* The steps of the calls on SchemaDiscovery
SchemaStep(p) ==
  \/ StartGetTableSchema(p) \/ StartGetGraphAPISchema(p)
  \/ SchemaFileRead(p) \/ SchemaLoaded(p)
  \/ TableDiscovered(p) \/ GraphFetched(p)
  \/ SchemaMkdir(p) \/ SchemaOpened(p) \/ SchemaWritten(p)
  \/ StartRefreshSchema(p) \/ SchemaUnlink(p) \/ SchemaUnlinked(p)
  \/ StartTestQuery(p) \/ QueryTested(p)
  \/ StartListTables(p) \/ TablesListed(p)

\* The steps of getToken when another method calls it
TokenStep(p) ==
  \/ TokenFileRead(p) \/ TokenLoaded(p)
  \/ AcquireFailed(p) \/ Acquired(p) \/ TokenMkdir(p) \/ TokenWritten(p)
  \/ Return(p)

\* The calls on SchemaDiscovery, one at a time: the next call starts when the
\* last one has returned.
Next ==
  \/ SchemaStep(1)
  \/ TokenStep(1)
  \/ Tick
  \/ Restart
  \/ TamperSchemaFile

Spec == Init /\ [][Next]_vars

\* The calls on AuthManager, one at a time.
AuthSeqNext ==
  \/ AuthStep(1)
  \/ Tick
  \/ Restart
  \/ TamperTokenFile

AuthSeqSpec == Init /\ [][AuthSeqNext]_vars

\* The calls on AuthManager, overlapping freely.
AuthNext ==
  \/ \E p \in Procs : AuthStep(p)
  \/ Tick
  \/ Restart
  \/ TamperTokenFile

AuthSpec == Init /\ [][AuthNext]_vars

\* refreshSchema(source) for a table
StartRefreshTable(p) ==
  /\ StartRefreshSchema(p)
  /\ proc'[p].kind = "table"

\* The steps of getTableSchema and of refreshSchema for a table
TableStep(p) ==
  \/ StartGetTableSchema(p) \/ SchemaFileRead(p) \/ SchemaLoaded(p)
  \/ TableDiscovered(p)
  \/ SchemaMkdir(p) \/ SchemaOpened(p) \/ SchemaWritten(p)
  \/ StartRefreshTable(p) \/ SchemaUnlink(p) \/ SchemaUnlinked(p)

\* getTableSchema and refreshSchema for the tables, overlapping freely within
\* one process.
ConcNext ==
  \/ \E p \in Procs : TableStep(p)
  \/ \E p \in Procs : TokenStep(p)
  \/ Tick

ConcSpec == Init /\ [][ConcNext]_vars

\* ------------------------------------------------------------------- claims
fileOf(pr) == filename(keyOf(pr))

\* What a lookup of the key finds on disk now: loadSchemaFromDisk on the file
onDisk(f) == loadSchemaFromDisk(readFile(schemaDisk[f]))

\* p calls getTableSchema(T) in this step while the map holds an entry for T
CallsWithEntry(p) ==
  /\ proc[p].pc = "idle"
  /\ proc'[p].op = "getTableSchema"
  /\ schemaCache[keyOf(proc'[p])] # NoEntry

\* C1: in one process, a successful getTableSchema(T) is either a remote
\* discovery returning cached=false or a cache hit returning cached=true, and
\* leaves the returned columns in the map; a getTableSchema(T) called while the
\* map holds an entry (so right after a successful one) returns the entry's
\* columns with cached=true and makes no remote request; a successful
\* refreshSchema(T) has made exactly one remote discovery, whose entry has
\* cached=false.
C1_EndToEndCachedFlag ==
  /\ [](\A p \in Procs :
          LET pr == proc[p]
          IN pr.pc = "done" =>
               /\ (pr.op = "getTableSchema" /\ pr.ret.ok) =>
                    /\ pr.remote \in {0, 1}
                    /\ pr.ret.value.cached = (pr.remote = 0)
                    /\ schemaCache[keyOf(pr)] # NoEntry
                    /\ schemaCache[keyOf(pr)].columns = pr.ret.value.columns
               /\ (pr.op = "refreshSchema" /\ pr.kind = "table" /\ pr.ret.ok) =>
                    /\ pr.remote = 1
                    /\ pr.schema.cached = FALSE)
  /\ [][\A p \in Procs :
          CallsWithEntry(p) =>
             /\ proc'[p].pc = "done"
             /\ proc'[p].ret.ok
             /\ proc'[p].ret.value.cached = TRUE
             /\ proc'[p].ret.value.columns = schemaCache[keyOf(proc'[p])].columns
             /\ proc'[p].remote = 0]_vars

\* C4: after the invalidation of refreshSchema (schemaCache.delete and the
\* unlink, whatever its outcome) a lookup of the key finds nothing, in memory
\* or on disk.
C4_InvalidateThenGetAbsent ==
  \A p \in Procs :
    proc[p].pc = "rs_unlinked" =>
      /\ schemaCache[keyOf(proc[p])] = NoEntry
      /\ onDisk(fileOf(proc[p])) = NoEntry

\* C2: once schemaCache.set(cacheKey, schema) has run in getTableSchema or
\* getGraphAPISchema, the map holds for that key exactly the entry that was put,
\* up to the return of the call; and a call that finds an entry in the map
\* returns at once with that entry (a table entry with its cached flag set).
C2_RoundTripMemory ==
  /\ [](\A p \in Procs :
          (proc[p].via = "remote" /\ proc[p].pc \in {"sc_mkdir", "sc_open", "sc_write", "done"}) =>
             schemaCache[keyOf(proc[p])] = proc[p].schema)
  /\ [][\A p \in Procs :
          (/\ proc[p].pc = "idle"
           /\ proc'[p].op \in {"getTableSchema", "getGraphAPISchema"}
           /\ schemaCache[keyOf(proc'[p])] # NoEntry) =>
             LET e == schemaCache[keyOf(proc'[p])]
             IN /\ proc'[p].pc = "done"
                /\ proc'[p].via = "memory"
                /\ schemaCache' = schemaCache
                /\ proc'[p].ret =
                     Ok(IF proc'[p].kind = "table" THEN [e EXCEPT !.cached = TRUE] ELSE e)]_vars

C2_Witness ==
  \E p \in Procs :
    /\ proc[p].pc = "sc_mkdir"
    /\ proc[p].kind = "api"
    /\ proc[p].schema # NoEntry
    /\ schemaCache[keyOf(proc[p])] = proc[p].schema

\* p's loadSchemaFromDisk resumes in this step
LoadResumes(p) ==
  /\ proc[p].pc = "sc_loaded"
  /\ proc'[p].pc \notin {"sc_loaded", "idle"}

\* C3: while a file is as a put wrote it, loading it yields exactly the entry
\* that was put; a call that finds such a file (its map is empty: a fresh
\* process) puts that entry in its map and returns it without any remote or
\* credential request.
C3_RoundTripDisk ==
  /\ [](\A f \in FileNames : putDisk[f] # NoEntry => onDisk(f) = putDisk[f])
  /\ [](\A p \in Procs :
          (proc[p].pc = "done" /\ proc[p].via = "disk") =>
             /\ proc[p].remote = 0
             /\ proc[p].cred = 0
             /\ proc[p].ret.ok)
  /\ [][\A p \in Procs :
          (LoadResumes(p) /\ putDisk[fileOf(proc[p])] # NoEntry) =>
             /\ proc'[p].pc = "done"
             /\ proc'[p].via = "disk"
             /\ schemaCache'[keyOf(proc[p])] = putDisk[fileOf(proc[p])]]_vars

C3_Witness ==
  \E p \in Procs :
    /\ proc[p].pc = "done"
    /\ proc[p].op = "getTableSchema"
    /\ proc[p].via = "disk"
    /\ putDisk[fileOf(proc[p])] # NoEntry
    /\ schemaCache[keyOf(proc[p])] = putDisk[fileOf(proc[p])]
    /\ proc[p].remote = 0

\* C5: when the read of the schema file fails (missing or unreadable file) or
\* its text is not JSON, loadSchemaFromDisk raises nothing, the map is left as
\* it was, and the call goes on to discovery, starting with getToken.
C5_CorruptFileIsMiss ==
  [][\A p \in Procs :
       (LoadResumes(p) /\ (~proc[p].read.ok \/ ~proc[p].read.text.json)) =>
          /\ schemaCache' = schemaCache
          /\ proc'[p].pc \in {"gt_read", "remote"}
          /\ proc'[p].ret = NoRet]_vars

C5_Witness ==
  \E p \in Procs :
    /\ proc[p].pc = "gt_read"
    /\ proc[p].op = "getTableSchema"
    /\ proc[p].read.ok
    /\ ~proc[p].read.text.json
    /\ schemaCache[keyOf(proc[p])] = NoEntry

\* What a new AuthManager finds in the token file now
tokenOnDisk == loadCachedToken(readFile(tokenFile), NoToken)

\* C6: a getToken called while the in-memory token is unexpired returns that
\* token at once, makes no credential request and leaves the cache as it is;
\* so however many such calls are made, the only credential request is the
\* one that acquired the token.
C6_IdempotentFastPath ==
  /\ [][\A p \in Procs :
          (/\ proc[p].pc = "idle"
           /\ proc'[p].op = "getToken"
           /\ cachedToken # NoToken
           /\ cachedToken.expiresOn > now) =>
             /\ proc'[p].pc = "done"
             /\ proc'[p].ret = Ok(cachedToken.token)
             /\ proc'[p].cred = 0
             /\ credIssued' = credIssued
             /\ cachedToken' = cachedToken]_vars
  /\ [](\A p \in Procs : proc[p].tokSrc = "memory" => proc[p].cred = 0)

C6_Witness ==
  \E p \in Procs :
    /\ proc[p].pc = "done"
    /\ proc[p].op = "getToken"
    /\ proc[p].tokSrc = "memory"
    /\ proc[p].ret = Ok(cachedToken.token)
    /\ credIssued = 1

\* p's loadCachedToken resumes in this step
TokenLoadResumes(p) ==
  /\ proc[p].pc = "gt_loaded"
  /\ proc'[p].pc \notin {"gt_loaded", "idle"}

\* C7: while the token file is as getToken wrote it after acquiring t, the file
\* holds exactly t; a getToken that loads it while t is unexpired (its memory is
\* empty: a new AuthManager) returns t, keeps t in memory and makes no
\* credential request.
C7_TokenPersistence ==
  /\ [](putToken # NoToken => tokenOnDisk = putToken)
  /\ [][\A p \in Procs :
          (TokenLoadResumes(p) /\ putToken # NoToken /\ putToken.expiresOn > now) =>
             /\ proc'[p].pc = "done"
             /\ proc'[p].ret = Ok(putToken.token)
             /\ proc'[p].tokSrc = "disk"
             /\ proc'[p].cred = 0
             /\ cachedToken' = putToken
             /\ credIssued' = credIssued]_vars

C7_Witness ==
  \E p \in Procs :
    /\ proc[p].pc = "done"
    /\ proc[p].op = "getToken"
    /\ proc[p].tokSrc = "disk"
    /\ putToken # NoToken
    /\ proc[p].ret = Ok(putToken.token)
    /\ cachedToken = putToken
    /\ proc[p].cred = 0

\* C8: a token getToken returns from the cache (memory or disk) was unexpired
\* when getToken checked it; a getToken that succeeds has either returned such
\* a token or made exactly one credential request and returned its answer.
C8_NoExpiredCachedToken ==
  \A p \in Procs :
    LET pr == proc[p]
    IN /\ pr.tokSrc \in {"memory", "disk"} =>
            /\ pr.tok # NoToken
            /\ pr.tok.expiresOn > pr.tokAt
            /\ pr.cred = 0
       /\ (pr.pc = "done" /\ pr.op \in {"getToken", "refreshToken"} /\ pr.ret.ok) =>
            /\ pr.tokSrc \in {"memory", "disk", "acquired"}
            /\ pr.tokSrc = "acquired" => pr.cred = 1
            /\ pr.ret.value = pr.tok.token

C8_Witness ==
  \E p \in Procs :
    /\ proc[p].pc = "gt_acquire"
    /\ cachedToken # NoToken
    /\ cachedToken.expiresOn <= now
    /\ tokenOnDisk = cachedToken

\* C9: isTokenExpiringSoon answers true when no token is cached or the cached
\* token expires less than five minutes from now, and false when it expires
\* more than five minutes from now.
C9_ExpiringSoonWindow ==
  \A p \in Procs :
    LET pr == proc[p]
    IN (pr.pc = "done" /\ pr.op = "isTokenExpiringSoon") =>
         IF pr.tok = NoToken
         THEN pr.ret.value = TRUE
         ELSE /\ (pr.tok.expiresOn - pr.tokAt < 5 * 60 * 1000) => pr.ret.value = TRUE
              /\ (pr.tok.expiresOn - pr.tokAt > 5 * 60 * 1000) => pr.ret.value = FALSE

C9_Witness ==
  \E p \in Procs :
    /\ proc[p].pc = "done"
    /\ proc[p].op = "isTokenExpiringSoon"
    /\ proc[p].tok # NoToken
    /\ proc[p].tok.expiresOn - proc[p].tokAt = 4 * 60 * 1000
    /\ proc[p].ret.value = TRUE

\* C10: every remote request is sent with a token that getToken either acquired
\* for this call or found to expire more than five minutes from now.
C10_RequestTokenRefreshed ==
  \A p \in Procs :
    proc[p].pc = "remote" =>
      \/ proc[p].tokSrc = "acquired"
      \/ proc[p].tok.expiresOn > proc[p].tokAt + 5 * 60 * 1000

\* C11: a refreshToken that returns successfully returns a token that the
\* credential provider issued during that refreshToken (never a token that
\* was cached before it), whatever other calls on the same AuthManager overlap
\* with it.
C11_RefreshTokenAcquires ==
  \A p \in Procs :
    (proc[p].pc = "done" /\ proc[p].op = "refreshToken" /\ proc[p].ret.ok) =>
      proc[p].tok.token > proc[p].since

\* C12: testQuery executes the query unchanged when it has a row-limit clause
\* (the operator take or limit, as a word of the query) and the query followed
\* by ' | take ' and maxRows when it has none.
C12_LimitAppendedOnce ==
  LET isLetter(c) == c \in {"T", "a", "e", "i", "k", "l", "m", "s", "t"}
      hasWord(s, w) ==
        \E i \in 0..(Len(s) - Len(w)) :
          /\ \A j \in 1..Len(w) : s[i + j] = w[j]
          /\ i = 0 \/ ~isLetter(s[i])
          /\ i + Len(w) = Len(s) \/ ~isLetter(s[i + Len(w) + 1])
      hasLimitClause(q) ==
        hasWord(q, <<"t", "a", "k", "e">>) \/ hasWord(q, <<"l", "i", "m", "i", "t">>)
  IN \A p \in Procs :
       (proc[p].pc = "remote" /\ proc[p].op = "testQuery") =>
          proc[p].sent =
            IF hasLimitClause(proc[p].src) THEN proc[p].src
            ELSE proc[p].src \o <<" ", "|", " ", "t", "a", "k", "e", " ", proc[p].maxRows>>

\* p's refreshSchema returns {success: true} in this step
RefreshReturns(p) ==
  /\ proc[p].pc # "done"
  /\ proc'[p].pc = "done"
  /\ proc'[p].op = "refreshSchema"
  /\ proc'[p].ret.ok

\* C13: whenever refreshSchema returns {success: true}, the call has made
\* exactly one remote discovery for its source and the map holds for the key
\* the entry that discovery produced, whatever the outcome of the unlink.
C13_RefreshRediscovers ==
  [][\A p \in Procs :
       RefreshReturns(p) =>
          /\ proc'[p].remote = 1
          /\ proc'[p].via = "remote"
          /\ schemaCache'[keyOf(proc'[p])] = proc'[p].schema]_vars

\* C14: whenever the map and the file of a key both hold an entry, the entry in
\* the map was discovered no earlier than the one in the file.
C14_MemoryAtLeastAsFresh ==
  \A k \in Keys :
    LET m == schemaCache[k]
        d == onDisk(filename(k))
    IN (m # NoEntry /\ d # NoEntry) => m.discoveredAt >= d.discoveredAt

\* A complete TableSchema, as one discovery produced it
CompleteTableSchema(e) ==
  /\ DOMAIN e = {"tableName", "columns", "discoveredAt", "cached"}
  /\ \E rows \in RowChoices : e.columns = columnsOf(rows)

\* C15: when calls of getTableSchema for the same table overlap, each makes at
\* most one remote discovery and returns a complete entry, the map holds
\* nothing or a complete entry, and a write to the file that goes through
\* leaves the file holding exactly the text of the entry written (never part
\* of one entry and part of another).
C15_ConcurrentDiscovery ==
  /\ [](\A p \in Procs :
          /\ proc[p].remote <= 1
          /\ (proc[p].pc = "done" /\ proc[p].op = "getTableSchema" /\ proc[p].ret.ok) =>
               CompleteTableSchema(proc[p].ret.value))
  /\ [](\A n \in TableNames :
          schemaCache[cacheKey("table", n)] # NoEntry =>
            CompleteTableSchema(schemaCache[cacheKey("table", n)]))
  /\ [][\A p \in Procs :
          (proc[p].pc = "sc_write" /\ proc'[p].pc = "done" /\ schemaDisk' # schemaDisk) =>
             schemaDisk'[fileOf(proc[p])] = File(proc[p].text)]_vars

\* What a lookup of the key finds now: the entry in the map, else the one on disk
cachedEntry(k) ==
  IF schemaCache[k] # NoEntry THEN schemaCache[k] ELSE onDisk(filename(k))

\* The process exits in this step: its map and its calls are gone
ProcessEnds ==
  /\ schemaCache' # schemaCache
  /\ \A k \in Keys : schemaCache'[k] = NoEntry
  /\ \A p \in Procs : proc'[p] = IdleProc

\* A schema file changes in this step and no call of the program moved
DamagedOutside == schemaDisk' # schemaDisk /\ proc' = proc

\* What getTableSchema / getGraphAPISchema return for the cached entry e
returnedFor(kind, e) == IF kind = "table" THEN [e EXCEPT !.cached = TRUE] ELSE e

\* C16: an entry that a lookup of key k finds stays what a lookup finds,
\* however much time passes, as long as the process runs, no refreshSchema for
\* k is in flight and the file is not damaged from outside; and a
\* getTableSchema / getGraphAPISchema that finds an entry, in the map or in a
\* readable file, returns it without a remote request and without asking for
\* a token.
C16_NoTTL ==
  /\ [][\A k \in Keys :
          (/\ cachedEntry(k) # NoEntry
           /\ ~ProcessEnds
           /\ ~DamagedOutside
           /\ \A p \in Procs : ~(proc'[p].op = "refreshSchema" /\ keyOf(proc'[p]) = k)) =>
             cachedEntry(k)' = cachedEntry(k)]_vars
  /\ [][\A p \in Procs :
          (/\ proc[p].pc = "idle"
           /\ proc'[p].op \in {"getTableSchema", "getGraphAPISchema"}
           /\ schemaCache[keyOf(proc'[p])] # NoEntry) =>
             /\ proc'[p].pc = "done"
             /\ proc'[p].ret = Ok(returnedFor(proc'[p].kind, schemaCache[keyOf(proc'[p])]))
             /\ proc'[p].remote = 0
             /\ proc'[p].tokSrc = "none"]_vars
  /\ [][\A p \in Procs :
          (proc[p].pc = "sc_read" /\ proc'[p].pc = "sc_loaded") =>
             loadSchemaFromDisk(proc'[p].read) = onDisk(fileOf(proc[p]))]_vars
  /\ [][\A p \in Procs :
          (/\ LoadResumes(p)
           /\ proc[p].op \in {"getTableSchema", "getGraphAPISchema"}
           /\ loadSchemaFromDisk(proc[p].read) # NoEntry) =>
             /\ proc'[p].pc = "done"
             /\ proc'[p].ret = Ok(returnedFor(proc[p].kind, loadSchemaFromDisk(proc[p].read)))
             /\ proc'[p].remote = 0
             /\ proc'[p].tokSrc = "none"]_vars

C16_Witness ==
  \E p \in Procs :
    /\ proc[p].pc = "done"
    /\ proc[p].op = "getTableSchema"
    /\ proc[p].via = "disk"
    /\ proc[p].ret.ok
    /\ proc[p].ret.value.discoveredAt < now
    /\ proc[p].remote = 0
    /\ proc[p].tokSrc = "none"

\* The answer to a remote request is a failure: the request threw, the query
\* reported a status other than Success or no table, the fetch was not ok
remoteFailed(r) ==
  \/ r.thrown
  \/ IF "status" \in DOMAIN r THEN queryFailed(r) ELSE ~r.ok

\* C17: every call of getTableSchema, getGraphAPISchema, testQuery, listTables
\* (and refreshSchema) makes at most one remote request, and when that request
\* fails the call ends at once with an error, without another request.
C17_NoRetries ==
  /\ [](\A p \in Procs :
          /\ proc[p].remote <= 1
          /\ (proc[p].resp # NoResp /\ remoteFailed(proc[p].resp)) =>
               /\ proc[p].pc = "done"
               /\ ~proc[p].ret.ok
               /\ proc[p].remote = 1)
  /\ [][\A p \in Procs :
          (proc[p].pc = "remote" /\ proc'[p] # proc[p]) =>
             proc'[p].pc \in {"done", "sc_mkdir", "idle"}]_vars

C17_Witness ==
  \E p \in Procs :
    /\ proc[p].pc = "done"
    /\ proc[p].op = "testQuery"
    /\ proc[p].resp # NoResp
    /\ ~proc[p].resp.thrown
    /\ proc[p].resp.status = "Failure"
    /\ proc[p].ret = Err
    /\ proc[p].remote = 1

\* p is a call of getTableSchema or getGraphAPISchema
IsGet(pr) == pr.op \in {"getTableSchema", "getGraphAPISchema"}

\* the credential request of the call failed
acquisitionFailed(pr) == pr.pc = "done" /\ pr.cred = 1 /\ pr.tokSrc = "none"

\* C18: a getTableSchema / getGraphAPISchema whose remote request fails (thrown,
\* status other than Success, no table, response not ok) or whose token
\* acquisition fails ends with an error; a call that ends with an error has
\* obtained no entry, and no step of a call that has obtained no entry changes
\* the map or a schema file.
C18_AllOrNothing ==
  /\ [](\A p \in Procs :
          (IsGet(proc[p]) /\ proc[p].pc = "done") =>
             /\ ((proc[p].resp # NoResp /\ remoteFailed(proc[p].resp))
                   \/ acquisitionFailed(proc[p])) => ~proc[p].ret.ok
             /\ ~proc[p].ret.ok => proc[p].via = "none")
  /\ [][\A p \in Procs :
          (proc'[p] # proc[p] /\ IsGet(proc'[p]) /\ proc'[p].via = "none") =>
             /\ schemaCache' = schemaCache
             /\ schemaDisk' = schemaDisk]_vars

C18_Witness ==
  \E p \in Procs :
    /\ proc[p].pc = "done"
    /\ proc[p].op = "getTableSchema"
    /\ proc[p].resp = QueryResponse("Success", <<>>)
    /\ proc[p].ret = Err
    /\ schemaCache[keyOf(proc[p])] = NoEntry
    /\ schemaDisk[fileOf(proc[p])] = Absent

\* p's saveSchemaToDisk ends in this step, with or without a file written
SaveEnds(p) ==
  /\ proc[p].pc \in {"sc_mkdir", "sc_open", "sc_write"}
  /\ proc'[p].pc = "done"

\* C19: however saveSchemaToDisk ends (mkdir, open or write failing, or the file
\* written), the call returns successfully, getTableSchema / getGraphAPISchema
\* with the entry discovered, and the map holds that entry; a later call for
\* the key in the same process is served from the map without a remote request.
C19_DiskWriteFailureSwallowed ==
  /\ [][\A p \in Procs :
          SaveEnds(p) =>
             /\ proc'[p].ret.ok
             /\ IsGet(proc[p]) => proc'[p].ret.value = proc[p].schema
             /\ schemaCache'[keyOf(proc[p])] = proc[p].schema]_vars
  /\ [][\A p \in Procs :
          (proc[p].pc = "idle" /\ IsGet(proc'[p]) /\ schemaCache[keyOf(proc'[p])] # NoEntry) =>
             /\ proc'[p].pc = "done"
             /\ proc'[p].via = "memory"]_vars
  /\ [](\A p \in Procs :
          (proc[p].pc = "done" /\ proc[p].via = "memory") =>
             /\ proc[p].ret.ok
             /\ proc[p].remote = 0)

C19_Witness ==
  \E p \in Procs :
    /\ proc[p].pc = "done"
    /\ proc[p].op = "getGraphAPISchema"
    /\ proc[p].via = "memory"
    /\ proc[p].ret.ok
    /\ proc[p].remote = 0
    /\ schemaDisk[fileOf(proc[p])] = Absent

\* C20: when the read of the token file fails or its text is not JSON, getToken
\* is left without a token, raises nothing and goes on to ask the credential
\* provider; however saveCachedToken ends (mkdir or write failing, or the file
\* written), getToken returns the token acquired and keeps it in memory; and
\* getToken / refreshToken end with an error only when the credential request
\* failed.
C20_TokenDiskIONonFatal ==
  /\ [][\A p \in Procs :
          (/\ TokenLoadResumes(p)
           /\ (~proc[p].read.ok \/ ~proc[p].read.text.json)) =>
             /\ cachedToken' = NoToken
             /\ proc'[p].pc = "gt_acquire"
             /\ proc'[p].ret = NoRet]_vars
  /\ [][\A p \in Procs :
          (proc[p].pc \in {"gt_mkdir", "gt_write"} /\ proc'[p].pc = "done") =>
             /\ proc'[p].ret = Ok(proc[p].tok.token)
             /\ cachedToken' = proc[p].tok]_vars
  /\ [](\A p \in Procs :
          (/\ proc[p].pc = "done"
           /\ proc[p].op \in {"getToken", "refreshToken"}
           /\ ~proc[p].ret.ok) => acquisitionFailed(proc[p]))

C20_Witness ==
  \E p \in Procs :
    /\ proc[p].pc = "done"
    /\ proc[p].op = "getToken"
    /\ ~proc[p].read.ok
    /\ proc[p].tokSrc = "acquired"
    /\ proc[p].ret = Ok(proc[p].tok.token)
    /\ cachedToken = proc[p].tok
    /\ tokenFile = Absent

\* ------------------------------------------------- two keys, one file name
\* getGraphAPISchema for one of the two endpoints that differ in '/' against '_'
StartGetLookalike(p) ==
  /\ proc[p].pc = "idle"
  /\ \E e \in LookalikeEndpoints : CallGetGraphAPISchema(p, e)
  /\ UNCHANGED <<cachedToken, tokenFile, schemaCache, schemaDisk, now, credIssued, putDisk, putToken>>

\* refreshSchema for one of the two endpoints
StartRefreshLookalike(p) ==
  /\ proc[p].pc = "idle"
  /\ \E e \in LookalikeEndpoints : CallRefreshSchema(p, e)
  /\ UNCHANGED <<cachedToken, tokenFile, schemaDisk, now, credIssued, putDisk, putToken>>

\* Calls of getGraphAPISchema and refreshSchema for those endpoints, one at a
\* time, and restarts of the process on the same cache directory.
KeyNext ==
  \/ StartGetLookalike(1)
  \/ SchemaFileRead(1) \/ SchemaLoaded(1) \/ GraphFetched(1)
  \/ SchemaMkdir(1) \/ SchemaOpened(1) \/ SchemaWritten(1)
  \/ StartRefreshLookalike(1) \/ SchemaUnlink(1) \/ SchemaUnlinked(1)
  \/ TokenStep(1)
  \/ Tick
  \/ Restart

KeySpec == Init /\ [][KeyNext]_vars

\* C21: distinct cache keys have distinct file names, so that a
\* getGraphAPISchema(e) that finds its entry in the file of its key, as after a
\* restart of the process, returns an entry that was discovered for e.
C21_LoadedEntryIsOfKey ==
  \A p \in Procs :
    (/\ proc[p].pc = "done"
     /\ proc[p].op = "getGraphAPISchema"
     /\ proc[p].ret.ok
     /\ proc[p].via = "disk") =>
       proc[p].ret.value.endpoint = proc[p].src

\* ---------------------------------------------------------------- loadConfig
\* A variable of process.env is unset, or set to a string, which may be empty.
Unset == [set |-> FALSE, v |-> ""]
EnvVal(s) == [set |-> TRUE, v |-> s]

\* !x for a value of process.env: undefined and '' are falsy
falsy(x) == ~x.set \/ x.v = ""

\* process.cwd()
Cwd == "/cwd"

\* path.join(...) of non-empty segments
pathJoin(segments) ==
  LET RECURSIVE join(_)
      join(ss) == IF Len(ss) = 1 THEN ss[1] ELSE ss[1] \o "/" \o join(Tail(ss))
  IN join(segments)

Config(tenantId, workspaceId, tokenCacheDir, schemaCacheDir) ==
  [tenantId |-> tenantId, workspaceId |-> workspaceId,
   tokenCacheDir |-> tokenCacheDir, schemaCacheDir |-> schemaCacheDir]

loadConfigUnchecked(env) ==
  Ok(Config(env.AZURE_TENANT_ID.v, env.AZURE_WORKSPACE_ID.v,
            IF falsy(env.TOKEN_CACHE_DIR) THEN pathJoin(<<Cwd, ".cache">>)
            ELSE env.TOKEN_CACHE_DIR.v,
            IF falsy(env.SCHEMA_CACHE_DIR) THEN pathJoin(<<Cwd, ".cache", "schemas">>)
            ELSE env.SCHEMA_CACHE_DIR.v))

loadConfig(env) ==
  IF falsy(env.AZURE_TENANT_ID)
  THEN [ok |-> FALSE, value |-> "AZURE_TENANT_ID environment variable is required"]
  ELSE IF falsy(env.AZURE_WORKSPACE_ID)
  THEN [ok |-> FALSE, value |-> "AZURE_WORKSPACE_ID environment variable is required"]
  ELSE Ok(Config(env.AZURE_TENANT_ID.v, env.AZURE_WORKSPACE_ID.v,
                 IF falsy(env.TOKEN_CACHE_DIR) THEN pathJoin(<<Cwd, ".cache">>)
                 ELSE env.TOKEN_CACHE_DIR.v,
                 IF falsy(env.SCHEMA_CACHE_DIR) THEN pathJoin(<<Cwd, ".cache", "schemas">>)
                 ELSE env.SCHEMA_CACHE_DIR.v))

\* The environments the process can be started in
Envs ==
  [AZURE_TENANT_ID : {Unset, EnvVal(""), EnvVal("tenant-1"), EnvVal("tenant-2")},
   AZURE_WORKSPACE_ID : {Unset, EnvVal(""), EnvVal("workspace-1"), EnvVal("workspace-2")},
   TOKEN_CACHE_DIR : {Unset, EnvVal(""), EnvVal("./custom/tokens")},
   SCHEMA_CACHE_DIR : {Unset, EnvVal(""), EnvVal("./custom/schemas")}]

StartLoadConfig(p) ==
  /\ proc[p].pc = "idle"
  /\ \E env \in Envs :
       proc' = [proc EXCEPT ![p] =
                  [IdleProc EXCEPT !.op = "loadConfig", !.arg = env, !.pc = "done",
                                   !.ret = loadConfig(env)]]
  /\ UNCHANGED <<cachedToken, tokenFile, schemaCache, schemaDisk, now, credIssued, putDisk, putToken>>

\* The process is started, in any environment, time and again.
ConfigNext ==
  \/ StartLoadConfig(1)
  \/ Return(1)

ConfigSpec == Init /\ [][ConfigNext]_vars

LoadConfigDone(p) == proc[p].pc = "done" /\ proc[p].op = "loadConfig"

\* C22: loadConfig throws exactly when AZURE_TENANT_ID or AZURE_WORKSPACE_ID is
\* unset or empty; otherwise tenantId and workspaceId are the values of the
\* environment, and each cache directory is the value of its variable when
\* that is set and not empty, and the default under the working directory
\* when it is unset or empty.
C22_LoadConfig ==
  \A p \in Procs :
    LoadConfigDone(p) =>
      LET env == proc[p].arg
          ret == proc[p].ret
      IN /\ ~ret.ok <=> (falsy(env.AZURE_TENANT_ID) \/ falsy(env.AZURE_WORKSPACE_ID))
         /\ ret.ok =>
              /\ ret.value.tenantId = env.AZURE_TENANT_ID.v
              /\ ret.value.workspaceId = env.AZURE_WORKSPACE_ID.v
              /\ ret.value.tokenCacheDir =
                   IF env.TOKEN_CACHE_DIR.set /\ env.TOKEN_CACHE_DIR.v # ""
                   THEN env.TOKEN_CACHE_DIR.v ELSE "/cwd/.cache"
              /\ ret.value.schemaCacheDir =
                   IF env.SCHEMA_CACHE_DIR.set /\ env.SCHEMA_CACHE_DIR.v # ""
                   THEN env.SCHEMA_CACHE_DIR.v ELSE "/cwd/.cache/schemas"

\* C22 as stated: each cache directory is the value of its variable whenever
\* the variable is set, and the default only when it is not set.
C22_LoadConfigAsStated ==
  \A p \in Procs :
    LoadConfigDone(p) =>
      LET env == proc[p].arg
          ret == proc[p].ret
      IN /\ ~ret.ok <=> (falsy(env.AZURE_TENANT_ID) \/ falsy(env.AZURE_WORKSPACE_ID))
         /\ ret.ok =>
              /\ ret.value.tenantId = env.AZURE_TENANT_ID.v
              /\ ret.value.workspaceId = env.AZURE_WORKSPACE_ID.v
              /\ ret.value.tokenCacheDir =
                   IF env.TOKEN_CACHE_DIR.set
                   THEN env.TOKEN_CACHE_DIR.v ELSE "/cwd/.cache"
              /\ ret.value.schemaCacheDir =
                   IF env.SCHEMA_CACHE_DIR.set
                   THEN env.SCHEMA_CACHE_DIR.v ELSE "/cwd/.cache/schemas"

\* A configuration is returned for an environment with an empty TOKEN_CACHE_DIR
\* and a custom SCHEMA_CACHE_DIR
C22_Witness ==
  /\ LoadConfigDone(1)
  /\ proc[1].ret.ok
  /\ proc[1].arg.TOKEN_CACHE_DIR = EnvVal("")
  /\ proc[1].arg.SCHEMA_CACHE_DIR = EnvVal("./custom/schemas")

\* C23: in every TableSchema that getTableSchema returns, the ordinals of the
\* columns are pairwise distinct, whatever rows the query engine returned.
C23_OrdinalsDistinct ==
  \A p \in Procs :
    (/\ proc[p].pc = "done"
     /\ proc[p].op = "getTableSchema"
     /\ proc[p].ret.ok) =>
       LET columns == proc[p].ret.value.columns
       IN \A i, j \in DOMAIN columns :
            i # j => columns[i].ordinal # columns[j].ordinal

\* ------------------------------------------- the samples of a Graph response
SampleNoTags == << <<"id", "string">> >>
SampleWithMail == << <<"id", "string">>, <<"tags", "array">>, <<"mail", "string">> >>
SampleCounted == << <<"id", "number">>, <<"tags", "object">> >>

\* More bodies than FetchOutcomes has: a property that a later sample lacks or
\* has as null, one that only a later sample has, an empty list, one sample,
\* and a body that is itself the sample.
FetchBodies ==
  {FetchResponse(TRUE, TRUE, samples, <<>>) :
     samples \in {<<>>, <<SampleFull>>, <<SampleFull, SampleFull>>,
                  <<SampleFull, SampleNullTags>>, <<SampleNullTags, SampleFull>>,
                  <<SampleFull, SampleNoTags>>, <<SampleNoTags, SampleWithMail>>,
                  <<SampleCounted, SampleFull>>}}
    \cup {FetchResponse(TRUE, FALSE, <<>>, SampleWithMail)}

GraphFetchedBody(p) == GraphFetchedFrom(p, FetchOutcomes \cup FetchBodies)

\* Calls of getGraphAPISchema, one at a time, against every kind of response
GraphNext ==
  \/ StartGetGraphAPISchema(1)
  \/ SchemaFileRead(1) \/ SchemaLoaded(1) \/ GraphFetchedBody(1)
  \/ SchemaMkdir(1) \/ SchemaOpened(1) \/ SchemaWritten(1)
  \/ TokenStep(1)
  \/ Tick
  \/ Restart

GraphSpec == Init /\ [][GraphNext]_vars

\* getGraphAPISchema has discovered the entry it returns
GraphDiscovered(p) ==
  /\ proc[p].pc = "done"
  /\ proc[p].op = "getGraphAPISchema"
  /\ proc[p].ret.ok
  /\ proc[p].via = "remote"

\* C24: in a discovered ApiSchema a property is required exactly when every
\* fetched sample has it with a value other than null; the properties are
\* those of the first fetched sample, in its order, each with the type of
\* the first sample's value: array for an array, else what typeof gives
\* (object for null).
C24_RequiredAndTypes ==
  \A p \in Procs :
    GraphDiscovered(p) =>
      LET body == proc[p].resp
          fetched == IF body.hasValue THEN body.value ELSE <<body.self>>
          props == proc[p].ret.value.properties
          has(sample, name) ==
            \E i \in DOMAIN sample : sample[i][1] = name /\ sample[i][2] # "null"
      IN /\ Len(props) = (IF Len(fetched) = 0 THEN 0 ELSE Len(fetched[1]))
         /\ \A i \in DOMAIN props :
              /\ props[i].name = fetched[1][i][1]
              /\ props[i].required <=> \A j \in DOMAIN fetched : has(fetched[j], props[i].name)
              /\ props[i].type =
                   (CASE fetched[1][i][2] = "array" -> "array"
                      [] fetched[1][i][2] = "null" -> "object"
                      [] OTHER -> fetched[1][i][2])

\* A discovery from two samples of which the second lacks a property of the first
C24_Witness ==
  /\ GraphDiscovered(1)
  /\ proc[1].resp.hasValue
  /\ proc[1].resp.value = <<SampleFull, SampleNoTags>>
  /\ \E i \in DOMAIN proc[1].ret.value.properties :
       /\ proc[1].ret.value.properties[i].name = "tags"
       /\ ~proc[1].ret.value.properties[i].required

\* ----------------------------------------------------------- generateSDKCode
\* generateSDKCode({tableName, framework, authType}) up to its first await: it
\* calls getTableSchema(tableName)
StartGenerateSDKCode(p) ==
  /\ proc[p].pc = "idle"
  /\ \E n \in TableNames, f \in Frameworks, a \in AuthTypes :
       proc' = [proc EXCEPT ![p] =
                  getSchemaHead([IdleProc EXCEPT !.op = "generateSDKCode",
                                                 !.kind = "table", !.src = n,
                                                 !.arg = [framework |-> f, authType |-> a]])]
  /\ UNCHANGED <<cachedToken, tokenFile, schemaCache, schemaDisk, now, credIssued, putDisk, putToken>>

\* Calls of generateSDKCode, one at a time
CodeNext ==
  \/ StartGenerateSDKCode(1)
  \/ SchemaFileRead(1) \/ SchemaLoaded(1) \/ TableDiscovered(1)
  \/ SchemaMkdir(1) \/ SchemaOpened(1) \/ SchemaWritten(1)
  \/ TokenStep(1)
  \/ Tick
  \/ Restart

CodeSpec == Init /\ [][CodeNext]_vars

\* C25: the code that generateSDKCode returns is the React/MSAL template for
\* framework react, the Node template for framework node and the inline
\* template for framework inline, whatever the authType.
C25_TemplateFollowsFramework ==
  \A p \in Procs :
    (/\ proc[p].pc = "done"
     /\ proc[p].op = "generateSDKCode"
     /\ proc[p].ret.ok) =>
       proc[p].ret.value.template =
         (CASE proc[p].arg.framework = "react" -> "// React component with MSAL authentication"
            [] proc[p].arg.framework = "node" -> "// Node.js with DefaultAzureCredential"
            [] proc[p].arg.framework = "inline" -> "// Inline query code (generic TokenCredential)")

\* C26: while the token in memory is the one acquired last and has not
\* expired, a getToken call that resumes after its read of the token file does
\* not replace it with null or with a token acquired earlier.
C26_FreshTokenKept ==
  [][\A p \in Procs :
       (/\ proc[p].op = "getToken"
        /\ proc[p].pc = "gt_loaded"
        /\ proc'[p].pc \in {"done", "gt_acquire"}
        /\ TokenUsable(cachedToken, now)
        /\ cachedToken.token = credIssued) =>
          /\ cachedToken' # NoToken
          /\ cachedToken'.token >= cachedToken.token]_vars

\* the re-discovery of a refreshSchema call fails in this step: its credential
\* request or its remote request ends the call
RediscoveryFails(p) ==
  /\ proc[p].op = "refreshSchema"
  /\ proc[p].pc \in {"gt_acquire", "remote"}
  /\ proc'[p].pc = "done"

\* C27: when the re-discovery of refreshSchema fails, refreshSchema ends with
\* that error, and a lookup of its key then finds no entry, neither in the
\* map nor in the file; a getTableSchema / getGraphAPISchema that finds no
\* entry in the map reads the file, and one that finds none in the file
\* either goes on to getToken and the remote request.
C27_FailedRefreshNotRolledBack ==
  /\ [][\A p \in Procs :
          RediscoveryFails(p) =>
            /\ ~proc'[p].ret.ok
            /\ schemaCache'[keyOf(proc[p])] = NoEntry
            /\ onDisk(fileOf(proc[p]))' = NoEntry]_vars
  /\ [](\A p \in Procs :
          (proc[p].pc = "done" /\ proc[p].op = "refreshSchema" /\ ~proc[p].ret.ok) =>
            cachedEntry(keyOf(proc[p])) = NoEntry)
  /\ [][\A p \in Procs :
          (/\ proc[p].pc = "idle"
           /\ IsGet(proc'[p])
           /\ schemaCache[keyOf(proc'[p])] = NoEntry) =>
             proc'[p].pc = "sc_read"]_vars
  /\ [][\A p \in Procs :
          (/\ LoadResumes(p)
           /\ IsGet(proc[p])
           /\ loadSchemaFromDisk(proc[p].read) = NoEntry) =>
             /\ proc'[p].pc \in {"gt_read", "remote"}
             /\ proc'[p].via = "none"]_vars

\* refreshSchema has failed on its remote request, sent with the token an
\* earlier call of this process had acquired
C27_Witness ==
  /\ proc[1].pc = "done"
  /\ proc[1].op = "refreshSchema"
  /\ ~proc[1].ret.ok
  /\ proc[1].remote = 1
  /\ remoteFailed(proc[1].resp)
  /\ cachedToken # NoToken
  /\ proc[1].tokSrc = "memory"

\* the call p takes this step
StepOf(p) == proc'[p] # proc[p] /\ proc'[p].pc # "idle"

\* C28: no step of a refreshSchema call changes the map's entry or the file of
\* a key other than its own, and no step of testQuery or listTables changes
\* the map or any schema file.
C28_RefreshFrame ==
  [][\A p \in Procs :
       /\ (StepOf(p) /\ proc'[p].op = "refreshSchema") =>
            \A k \in AllKeys \ {keyOf(proc'[p])} :
              /\ schemaCache'[k] = schemaCache[k]
              /\ schemaDisk'[filename(k)] = schemaDisk[filename(k)]
       /\ (StepOf(p) /\ proc'[p].op \in {"testQuery", "listTables"}) =>
            /\ schemaCache' = schemaCache
            /\ schemaDisk' = schemaDisk]_vars

\* ------------------------------------------------------ detectTableWorkspace
\* the answer r to the metadata query
afterMetadata(pr, r) ==
  IF r.thrown
  THEN detectContinue(pushNotFound(pr, "error.message"))
  ELSE IF r.status = "Success" /\ Len(r.tables) > 0
  THEN IF Len(r.tables[1]) = 0
       THEN detectContinue(pushNotFound(pr, "error.message"))
       ELSE detectContinue(pushFound(pr, r.tables[1][1][1]))
  ELSE detectContinue(pr)

\* detectTableWorkspace(tableName, workspaceIds) up to its first await
StartDetectTableWorkspace(p) ==
  /\ proc[p].pc = "idle"
  /\ \E n \in TableNames, ids \in WorkspaceIdsChoices :
       proc' = [proc EXCEPT ![p] =
                  detectLoop([IdleProc EXCEPT
                                !.op = "detectTableWorkspace", !.src = n,
                                !.arg = [workspaces |-> workspacesToCheck(ids), i |-> 1,
                                         foundIn |-> <<>>, notFoundIn |-> <<>>]])]
  /\ UNCHANGED <<cachedToken, tokenFile, schemaCache, schemaDisk, now, credIssued, putDisk, putToken>>

\* client.queryWorkspace(workspaceId, existsQuery) completes
ExistsQueried(p) ==
  /\ proc[p].pc = "remote"
  /\ proc[p].op = "detectTableWorkspace"
  /\ \E r \in DetectOutcomes :
       LET pr == [proc[p] EXCEPT !.resp = r]
       IN proc' = [proc EXCEPT ![p] =
                     IF r.thrown
                     THEN detectContinue(pushNotFound(pr, "error.message"))
                     ELSE IF r.status # "Success" \/ Len(r.tables) = 0 \/ Len(r.tables[1]) = 0
                     THEN detectContinue(pushNotFound(pr, "Table does not exist"))
                     ELSE [pr EXCEPT !.pc = "dt_meta", !.remote = pr.remote + 1]]
  /\ UNCHANGED <<cachedToken, tokenFile, schemaCache, schemaDisk, now, credIssued, putDisk, putToken>>

\* client.queryWorkspace(workspaceId, metadataQuery) completes
MetadataQueried(p) ==
  /\ proc[p].pc = "dt_meta"
  /\ \E r \in DetectOutcomes :
       proc' = [proc EXCEPT ![p] = afterMetadata([proc[p] EXCEPT !.resp = r], r)]
  /\ UNCHANGED <<cachedToken, tokenFile, schemaCache, schemaDisk, now, credIssued, putDisk, putToken>>

\* Calls of detectTableWorkspace, one at a time
DetectNext ==
  \/ StartDetectTableWorkspace(1)
  \/ ExistsQueried(1) \/ MetadataQueried(1)
  \/ TokenStep(1)
  \/ Tick
  \/ Restart

DetectSpec == Init /\ [][DetectNext]_vars

\* C29: in the result of detectTableWorkspace every workspace that was to be
\* checked is in exactly one entry of foundIn and notFoundIn together.
C29_WorkspacesPartitioned ==
  \A p \in Procs :
    (/\ proc[p].pc = "done"
     /\ proc[p].op = "detectTableWorkspace"
     /\ proc[p].ret.ok) =>
       LET found == proc[p].ret.value.foundIn
           notFound == proc[p].ret.value.notFoundIn
           checked == proc[p].arg.workspaces
       IN \A i \in DOMAIN checked :
            Cardinality({j \in DOMAIN found : found[j].workspaceId = checked[i]})
              + Cardinality({j \in DOMAIN notFound : notFound[j].workspaceId = checked[i]}) = 1

\* ------------------------------------------------------- getToken(scopes)
\* The scopes argument of getToken: its default (both scopes), or one scope
\* alone; getGraphToken calls getToken() with the default.
ScopesChoices ==
  {<<"https://api.loganalytics.io/.default", "https://graph.microsoft.com/.default">>,
   <<"https://api.loganalytics.io/.default">>,
   <<"https://graph.microsoft.com/.default">>}

\* getToken(scopes), or getGraphToken(), is called while no other call is in
\* flight; the result of the other caller's last call is still at hand
StartGetTokenFor(p) ==
  /\ proc[p].pc = "idle"
  /\ \A q \in Procs \ {p} : proc[q].pc \in {"idle", "done"}
  /\ \E scopes \in ScopesChoices, graph \in BOOLEAN :
       /\ graph => scopes = <<"https://api.loganalytics.io/.default",
                              "https://graph.microsoft.com/.default">>
       /\ proc' = [proc EXCEPT ![p] =
                     getTokenHead([IdleProc EXCEPT !.op = "getToken",
                                                   !.arg = [scopes |-> scopes,
                                                            getGraphToken |-> graph]])]
  /\ UNCHANGED <<cachedToken, tokenFile, schemaCache, schemaDisk, now, credIssued, putDisk, putToken>>

\* Calls of getToken with any scopes and of getGraphToken, by two callers, one
\* call at a time
ScopeNext ==
  \/ \E p \in Procs : StartGetTokenFor(p)
  \/ \E p \in Procs : TokenStep(p)
  \/ Tick
  \/ Restart

ScopeSpec == Init /\ [][ScopeNext]_vars

\* C30: a getToken / getGraphToken called while the token in memory has not
\* expired returns that token at once, and one that finds an unexpired token
\* in the token file returns that one, in both cases whatever the scopes
\* asked for and without a request to the credential provider.
C30_TokenNotKeyedByScope ==
  /\ [][\A p \in Procs :
          (/\ proc[p].pc = "idle"
           /\ proc'[p].op = "getToken"
           /\ TokenUsable(cachedToken, now)) =>
             /\ proc'[p].pc = "done"
             /\ proc'[p].ret = Ok(cachedToken.token)
             /\ proc'[p].cred = 0
             /\ cachedToken' = cachedToken]_vars
  /\ [][\A p \in Procs :
          (/\ proc[p].pc = "gt_read"
           /\ proc'[p].pc = "gt_loaded"
           /\ putToken # NoToken) =>
             proc'[p].read = [ok |-> TRUE, text |-> StringifyToken(putToken)]]_vars
  /\ [][\A p \in Procs :
          (/\ proc[p].op = "getToken"
           /\ proc[p].pc = "gt_loaded"
           /\ proc'[p].pc \in {"done", "gt_acquire"}
           /\ proc[p].read.ok
           /\ proc[p].read.text.json
           /\ "isNull" \notin DOMAIN proc[p].read.text
           /\ JSONParse(proc[p].read.text).expiresOn > now) =>
             /\ proc'[p].pc = "done"
             /\ proc'[p].ret = Ok(JSONParse(proc[p].read.text).token)
             /\ proc'[p].cred = 0]_vars

\* One caller has acquired a token for the Log Analytics scope alone; the
\* other has asked for the Graph scope alone and got the same token from
\* memory, without a credential request
C30_Witness ==
  /\ proc[1].pc = "done"
  /\ proc[1].tokSrc = "acquired"
  /\ proc[1].arg.scopes = <<"https://api.loganalytics.io/.default">>
  /\ proc[2].pc = "done"
  /\ proc[2].op = "getToken"
  /\ proc[2].arg.scopes = <<"https://graph.microsoft.com/.default">>
  /\ proc[2].ret = proc[1].ret
  /\ proc[2].tokSrc = "memory"
  /\ proc[2].cred = 0

====
